---- MODULE Spec2Model ----
(***************************************************************************)
(* Length-aware token-budget batching (spring_amr/dataset.py) as a state   *)
(* machine: the sampler generator of AMRDatasetTokenBatcherAndLoader, the  *)
(* batching iterator built on it, and the padding collator to_tensor;      *)
(* with them the rank sharding of AMRDataset.__init__ and the start-up of  *)
(* the training script (bin/train.py).                                     *)
(***************************************************************************)
EXTENDS Integers, Sequences, FiniteSets, TLC

\* ------------------------------------------------------------------ bounds
MaxN == 3          \* largest dataset size explored
MaxLen == 3        \* largest linearized (bucketing) length of an example
MaxTokLen == 2     \* largest tokenized (primary) length of an example
MaxBudget == 6     \* largest token budget explored
IterMaxN == 2      \* largest dataset size explored under the batching iterator
IterMaxBudget == 2 \* largest token budget explored under the batching iterator
MaxRows == 2       \* most sequences handed to to_tensor at once
MaxSeqLen == 2     \* longest sequence handed to to_tensor
MaxTokenId == 1    \* token ids (and pad values) range over 0..MaxTokenId
ShardMaxN == 3     \* largest corpus read by a sharded dataset
ShardMaxLen == 2   \* largest linearized length in that corpus
MaxWorldSize == 2  \* most participating processes of a sharded dataset
MaxNproc == 3      \* largest --nproc_per_node explored

VARIABLES
    linearized,    \* dataset.linearized, as the sequence of len(l)
    tokenized,     \* dataset.tokenized, as the sequence of x.size(0)
    batch_size,    \* loader.batch_size
    device,        \* loader.device
    shuffle,       \* loader.shuffle
    sort,          \* loader.sort
    gens,          \* the live sampler() generators, one record per pass
    samples,       \* to_tensor: [s[key_value] for s in samples]
    padding_value, \* to_tensor: the pad value of the field
    result,        \* to_tensor: what the call returned, once it has
    it,            \* the iterator __iter__ returned last, and what it produced
    corpus,        \* what read_raw_amr_data returns: [lin, tok] per graph
    rank,          \* AMRDataset(rank=...)
    world_size,    \* AMRDataset(world_size=...)
    evaluation,    \* AMRDataset(evaluation=...)
    remove_longer_than, \* AMRDataset(remove_longer_than=...), 0 for None
    graphs,        \* __init__'s local graphs after line 52, as corpus positions
    kept,          \* dataset.graphs, as corpus positions
    built,         \* the AMRDataset constructor has returned
    autocast_available, \* train.py's module attribute of that name
    args,          \* train.py: the parsed command line
    config_readable,    \* whether args.config can be opened
    startup,       \* train.py: how far the script has come
    procs          \* train.py: what each do_train process has read so far

vars == <<linearized, tokenized, batch_size, device, shuffle, sort, gens,
          samples, padding_value, result, it,
          corpus, rank, world_size, evaluation, remove_longer_than, graphs,
          kept, built,
          autocast_available, args, config_readable, startup, procs>>

loaderVars == <<linearized, tokenized, batch_size, device, shuffle, sort>>
tensorVars == <<samples, padding_value, result>>
shardVars == <<corpus, rank, world_size, evaluation, remove_longer_than, graphs,
               kept, built>>
startVars == <<autocast_available, args, config_readable, startup, procs>>

\* ---------------------------------------------------------------- helpers
Max(a, b) == IF a >= b THEN a ELSE b

Devices == {"cpu", "cuda"}

\* The ids of a list of groups, in order.
RECURSIVE Flatten(_)
Flatten(groups) ==
    IF groups = <<>> THEN <<>> ELSE Head(groups) \o Flatten(Tail(groups))

Elems(s) == {s[i] : i \in 1..Len(s)}

NoDuplicates(s) == \A i, j \in 1..Len(s) : i # j => s[i] # s[j]

\* Budgets a caller may pass: __init__ stores any integer it is given.
Budgets == (-1)..MaxBudget

\* list(range(n))
Range(n) == [i \in 1..n |-> i - 1]

\* Every order random.shuffle can leave a list of n ids in.
Perms(n) == {p \in [1..n -> 0..(n - 1)] : \A i, j \in 1..n : i # j => p[i] # p[j]}

\* len(dataset): one entry per kept example
DatasetLen == Len(linearized)

\* len(self.dataset.linearized[idx]) for a 0-based id
Lin(x) == linearized[x + 1]

\* self.dataset.tokenized[idx].size(0) for a 0-based id
Tok(x) == tokenized[x + 1]

\* Variant: the sort key reads the linearized lengths whatever shuffle is.
SortLengthsLinOnly(x) == Lin(x)
\* The lengths the sort key reads: linearized under shuffle, tokenized otherwise.
SortLengths(x) == IF shuffle THEN Lin(x) ELSE Tok(x)

\* list.sort(key=lambda x: -lengths[x]): stable, descending by length.
RECURSIVE InsertSorted(_, _)
InsertSorted(s, x) ==
    IF s = <<>> THEN <<x>>
    ELSE IF SortLengths(Head(s)) >= SortLengths(x)
         THEN <<Head(s)>> \o InsertSorted(Tail(s), x)
         ELSE <<x>> \o s

RECURSIVE SortIds(_)
SortIds(s) ==
    IF s = <<>> THEN <<>>
    ELSE InsertSorted(SortIds(SubSeq(s, 1, Len(s) - 1)), s[Len(s)])

\* ------------------------------------------------------- sampler generator
\* A generator object before its first next(): no line of the body has run.
NewGen ==
    [pc |-> "start", ids |-> <<>>, idx |-> -1, size |-> 0,
     batch_longest |-> 0, batch_nexamps |-> 0, batch_ntokens |-> 0,
     batch_ids |-> <<>>, out |-> <<>>]

\* Lines 171-184 for the order `perm` that random.shuffle left (the identity
\* when shuffle is off).
StartGen(g, perm) ==
    [g EXCEPT !.pc = "loop",
              !.ids = IF sort THEN SortIds(perm) ELSE perm,
              !.batch_longest = 0, !.batch_nexamps = 0, !.batch_ntokens = 0,
              !.batch_ids = <<>>]

\* Variant: discharge() without the batch_ids[:] = [] of line 194.
DischargeKeepIds(g) ==
    [g EXCEPT !.out = Append(@, g.batch_ids),
              !.batch_longest = @ * 0,
              !.batch_nexamps = @ * 0,
              !.batch_ntokens = @ * 0]
\* discharge(): hand out a copy of batch_ids and reset the running state.
Discharge(g) ==
    [g EXCEPT !.out = Append(@, g.batch_ids),
              !.batch_longest = @ * 0,
              !.batch_nexamps = @ * 0,
              !.batch_ntokens = @ * 0,
              !.batch_ids = <<>>]

\* Variant: ids.pop(0), taking the id at the front of the list.
PopFirst(g) ==
    [g EXCEPT !.idx = g.ids[1],
              !.ids = Tail(g.ids),
              !.size = Lin(g.ids[1])]
\* idx = ids.pop(); size = len(self.dataset.linearized[idx])
Pop(g) ==
    [g EXCEPT !.idx = g.ids[Len(g.ids)],
              !.ids = SubSeq(g.ids, 1, Len(g.ids) - 1),
              !.size = Lin(g.ids[Len(g.ids)])]

\* Variants: the candidate cost taken as the running total, and computed
\* from the popped size alone.
CandRunningTotal(g) == g.batch_ntokens
CandIgnoringLongest(g) == g.size * (g.batch_nexamps + 1)
\* cand_batch_ntokens = max(size, batch_longest) * (batch_nexamps + 1)
CandBatchNtokens(g) == Max(g.size, g.batch_longest) * (g.batch_nexamps + 1)

\* Variant: lines 203-206 with batch_ntokens kept as a running sum of sizes.
AddToBatchSumming(g) ==
    [g EXCEPT !.batch_longest = Max(g.batch_longest, g.size),
              !.batch_nexamps = @ + 1,
              !.batch_ntokens = @ + g.size,
              !.batch_ids = Append(@, g.idx)]
\* Lines 203-206.
AddToBatch(g) ==
    [g EXCEPT !.batch_longest = Max(g.batch_longest, g.size),
              !.batch_nexamps = @ + 1,
              !.batch_ntokens = Max(g.batch_longest, g.size) * (g.batch_nexamps + 1),
              !.batch_ids = Append(@, g.idx)]

\* Variant: lines 208-209 flushing every group of one id, whatever its cost.
AfterAddAnySingleton(g, B) ==
    IF Len(g.batch_ids) = 1
    THEN [Discharge(g) EXCEPT !.pc = "yield209"]
    ELSE [g EXCEPT !.pc = "loop"]
\* Lines 208-209, then back to the loop test.
AfterAdd(g, B) ==
    IF Len(g.batch_ids) = 1 /\ g.batch_ntokens > B
    THEN [Discharge(g) EXCEPT !.pc = "yield209"]
    ELSE [g EXCEPT !.pc = "loop"]

\* One iteration of the while loop, up to its first yield or its end.
LoopBody(g, B) ==
    LET h == Pop(g) IN
    IF CandBatchNtokens(h) > B /\ h.batch_ids # <<>>
    THEN [Discharge(h) EXCEPT !.pc = "yield202"]
    ELSE AfterAdd(AddToBatch(h), B)

\* Variants: lines 211-212 without the `if batch_ids` test, and without the
\* final flush.
LoopExitAlwaysFlush(g) == [Discharge(g) EXCEPT !.pc = "yield212"]
LoopExitNoFlush(g) == [g EXCEPT !.pc = "done"]
\* Lines 211-212, reached when `while ids` fails.
LoopExit(g) ==
    IF g.batch_ids # <<>>
    THEN [Discharge(g) EXCEPT !.pc = "yield212"]
    ELSE [g EXCEPT !.pc = "done"]

\* The generator's transition from any position after the start, under the
\* budget self.batch_size holds when the step runs.
Advance(g, B) ==
    CASE g.pc = "loop" /\ g.ids # <<>> -> LoopBody(g, B)
      [] g.pc = "loop" /\ g.ids = <<>> -> LoopExit(g)
      [] g.pc = "yield202" -> AfterAdd(AddToBatch(g), B)
      [] g.pc = "yield209" -> [g EXCEPT !.pc = "loop"]
      [] g.pc = "yield212" -> [g EXCEPT !.pc = "done"]
      [] OTHER -> g

\* A generator driven to exhaustion: the list of groups it yields.
RECURSIVE Drain(_, _)
Drain(g, B) == IF g.pc = "done" THEN g.out ELSE Drain(Advance(g, B), B)

\* AMRDatasetTokenBatcherAndLoader.__init__: every argument is stored as given.
LoaderInit(b, d, sh, so) ==
    /\ batch_size = b
    /\ device = d
    /\ shuffle = sh
    /\ sort = so

\* The datasets explored: up to `most` examples, each with its two lengths.
DatasetInit(most) ==
    \E n \in 0..most :
        /\ linearized \in [1..n -> 1..MaxLen]
        /\ tokenized \in [1..n -> 1..MaxTokLen]

\* ------------------------------------------------------------- to_tensor
TokenIds == 0..MaxTokenId

\* No call has returned yet.
NoResult ==
    [returned |-> FALSE, with_mask |-> FALSE, input_ids |-> <<>>,
     attention_mask |-> <<>>, device |-> "cpu"]

\* The to_tensor state of the specifications that never call it.
TensorIdle ==
    /\ samples = <<>>
    /\ padding_value = 0
    /\ result = NoResult

\* max(s.size(0) for s in sequences)
RECURSIVE LongestOf(_)
LongestOf(seqs) ==
    IF seqs = <<>> THEN 0 ELSE Max(Len(Head(seqs)), LongestOf(Tail(seqs)))

\* Variant: pad_sequence left at its default padding value 0.
PadSequenceWithZero(seqs, pad) ==
    [i \in 1..Len(seqs) |->
        [j \in 1..LongestOf(seqs) |->
            IF j <= Len(seqs[i]) THEN seqs[i][j] ELSE 0]]
\* pad_sequence(tokenized, batch_first=True, padding_value=pad): one row per
\* sequence, in order, each filled up to the longest with pad.
PadSequence(seqs, pad) ==
    [i \in 1..Len(seqs) |->
        [j \in 1..LongestOf(seqs) |->
            IF j <= Len(seqs[i]) THEN seqs[i][j] ELSE pad]]

\* Variant: the mask compares against 0 instead of the pad value.
NeZero(t, pad) ==
    [i \in 1..Len(t) |-> [j \in 1..Len(t[i]) |-> IF t[i][j] # 0 THEN 1 ELSE 0]]
\* torch.ne(input_ids, padding_value).to(torch.int64)
Ne(t, pad) ==
    [i \in 1..Len(t) |-> [j \in 1..Len(t[i]) |-> IF t[i][j] # pad THEN 1 ELSE 0]]

\* to_tensor (lines 10-16) on the field's sequences.
ToTensor(seqs, pad, dev, return_mask) ==
    LET input_ids == PadSequence(seqs, pad) IN
    IF ~return_mask
    THEN [returned |-> TRUE, with_mask |-> FALSE, input_ids |-> input_ids,
          attention_mask |-> <<>>, device |-> dev]
    ELSE [returned |-> TRUE, with_mask |-> TRUE, input_ids |-> input_ids,
          attention_mask |-> Ne(input_ids, pad), device |-> dev]

\* A call of to_tensor on the current samples.
ToTensorCall(dev, return_mask) ==
    /\ ~result.returned
    /\ result' = ToTensor(samples, padding_value, dev, return_mask)
    /\ UNCHANGED <<loaderVars, gens, samples, padding_value, it,
                 shardVars, startVars>>

\* ------------------------------------------------------ batching iterator
\* No iterator has been asked for yet.
NoIter ==
    [live |-> FALSE, pending |-> <<>>, batches |-> <<>>,
     start_batch_size |-> 0, start_device |-> "cpu"]

\* Variant: a draw with replacement, the group drawn first taken every time.
PermuteRepeating(groups, gp) == [i \in 1..Len(groups) |-> groups[gp[1] + 1]]
\* Every order random.shuffle can leave a list of k groups in.
Permute(groups, gp) == [i \in 1..Len(groups) |-> groups[gp[i] + 1]]

\* Longest tokenized length among the ids of s (0 for no ids).
MaxTokOf(s) ==
    IF s = <<>> THEN 0
    ELSE CHOOSE m \in {Tok(s[i]) : i \in 1..Len(s)} :
             \A i \in 1..Len(s) : Tok(s[i]) <= m

\* collate_fn(b, device=dev): the batch keeps the group's ids in order
\* (extra['ids']), pads tokenized_ids to rows x cols and sits on dev.
CollateFn(group, dev) ==
    [ids |-> group, device |-> dev,
     rows |-> Len(group), cols |-> MaxTokOf(group)]

\* __iter__ (lines 162-168): the list comprehension of line 164 runs the
\* sampler to its end under the budget of that moment; the groups are then
\* shuffled as a list; nothing is collated yet.  start_batch_size and
\* start_device record what the attributes were when the pass started.
IterNew(perm, gp) ==
    LET groups == Drain(StartGen(NewGen, perm), batch_size) IN
    [live |-> TRUE,
     pending |-> IF shuffle THEN Permute(groups, gp) ELSE groups,
     batches |-> <<>>,
     start_batch_size |-> batch_size,
     start_device |-> device]

\* Variant: a lazy pipeline, regrouping the ids still to come under the
\* budget of the moment of each next().
IterAdvanceRegrouping(i) ==
    LET rest == Flatten(i.pending)
        regrouped == Drain([NewGen EXCEPT !.pc = "loop",
                                          !.ids = [k \in 1..Len(rest) |->
                                                      rest[Len(rest) + 1 - k]]],
                           batch_size)
    IN [i EXCEPT !.pending = Tail(regrouped),
                 !.batches = Append(@, CollateFn(Head(regrouped), device))]
\* One next() on the generator expression of line 167: the next group is
\* collated, on the device self.device names at that moment.
IterAdvance(i) ==
    [i EXCEPT !.pending = Tail(@),
              !.batches = Append(@, CollateFn(Head(i.pending), device))]

\* The orders random.shuffle(it) of line 166 can leave the groups in; without
\* shuffle the list is left as the sampler produced it.
GroupOrders(perm) ==
    IF shuffle
    THEN Perms(Len(Drain(StartGen(NewGen, perm), batch_size)))
    ELSE {<<>>}

\* iter(loader), once the previous pass is over.  (A call made mid-pass only
\* abandons the old iterator: the new one depends on the loader alone.)
IterCall ==
    /\ ~it.live
    /\ \E perm \in (IF shuffle THEN Perms(DatasetLen) ELSE {Range(DatasetLen)}) :
       \E gp \in GroupOrders(perm) :
           it' = IterNew(perm, gp)
    /\ UNCHANGED <<loaderVars, gens, tensorVars, shardVars, startVars>>

\* next(it) yielding a batch
IterNext ==
    /\ it.live
    /\ it.pending # <<>>
    /\ it' = IterAdvance(it)
    /\ UNCHANGED <<loaderVars, gens, tensorVars, shardVars, startVars>>

\* next(it) on the exhausted generator: StopIteration
IterStop ==
    /\ it.live
    /\ it.pending = <<>>
    /\ it' = [it EXCEPT !.live = FALSE]
    /\ UNCHANGED <<loaderVars, gens, tensorVars, shardVars, startVars>>

\* loader.device = d (train.py lines 156, 171, 237)
SetDevice(d) ==
    /\ device' = d
    /\ UNCHANGED <<linearized, tokenized, batch_size, shuffle, sort, gens, tensorVars, it,
                 shardVars, startVars>>

\* loader.batch_size = b (train.py line 155)
SetBatchSize(b) ==
    /\ batch_size' = b
    /\ UNCHANGED <<linearized, tokenized, device, shuffle, sort, gens, tensorVars, it,
                 shardVars, startVars>>

\* ------------------------------------------------------- sampler actions
\* First next(): lines 171-184.
SamplerStart(p) ==
    /\ gens[p].pc = "start"
    /\ \E perm \in (IF shuffle THEN Perms(DatasetLen) ELSE {Range(DatasetLen)}) :
           gens' = [gens EXCEPT ![p] = StartGen(gens[p], perm)]
    /\ UNCHANGED <<loaderVars, tensorVars, it, shardVars, startVars>>

\* Variant: the list of ids still to pop kept on the loader, so that a step
\* of one pass also shortens the list of every other pass.
SamplerLoopSharingIds(p) ==
    /\ gens[p].pc = "loop"
    /\ gens[p].ids # <<>>
    /\ gens' = [q \in DOMAIN gens |->
                   IF q = p THEN Advance(gens[p], batch_size)
                   ELSE [gens[q] EXCEPT !.ids = Advance(gens[p], batch_size).ids]]
    /\ UNCHANGED <<loaderVars, tensorVars, it, shardVars, startVars>>
\* One while-loop iteration (lines 197-209).
SamplerLoop(p) ==
    /\ gens[p].pc = "loop"
    /\ gens[p].ids # <<>>
    /\ gens' = [gens EXCEPT ![p] = Advance(gens[p], batch_size)]
    /\ UNCHANGED <<loaderVars, tensorVars, it, shardVars, startVars>>

\* The loop test fails (lines 211-212).
SamplerExit(p) ==
    /\ gens[p].pc = "loop"
    /\ gens[p].ids = <<>>
    /\ gens' = [gens EXCEPT ![p] = Advance(gens[p], batch_size)]
    /\ UNCHANGED <<loaderVars, tensorVars, it, shardVars, startVars>>

\* next() on a generator suspended at one of its three yields.
SamplerResume(p) ==
    /\ gens[p].pc \in {"yield202", "yield209", "yield212"}
    /\ gens' = [gens EXCEPT ![p] = Advance(gens[p], batch_size)]
    /\ UNCHANGED <<loaderVars, tensorVars, it, shardVars, startVars>>

\* ----------------------------------------------------- parts not in use
\* No sharded dataset is being constructed.
ShardIdle ==
    /\ corpus = <<>>
    /\ rank = 0
    /\ world_size = 1
    /\ evaluation = TRUE
    /\ remove_longer_than = 0
    /\ graphs = <<>>
    /\ kept = <<>>
    /\ built = FALSE

\* The command line as argparse leaves it when no option is given
\* (train.py lines 253-255).
DefaultArgs == [fp16 |-> FALSE, checkpoint |-> FALSE, nproc_per_node |-> 2]

\* The training script is not running.
StartIdle ==
    /\ autocast_available = FALSE
    /\ args = DefaultArgs
    /\ config_readable = TRUE
    /\ startup = "off"
    /\ procs = <<>>

\* ---------------------------------------------- one sampler() pass (Spec)
\* The sampler reads dataset.tokenized only to sort without shuffle (line 178):
\* under the other settings the tokenized lengths are left at 1.
Init ==
    /\ DatasetInit(MaxN)
    /\ \E b \in Budgets, sh \in BOOLEAN, so \in BOOLEAN : LoaderInit(b, "cpu", sh, so)
    /\ (shuffle \/ ~sort) => tokenized = [i \in 1..DatasetLen |-> 1]
    /\ gens = <<NewGen>>
    /\ TensorIdle
    /\ it = NoIter
    /\ ShardIdle
    /\ StartIdle

Next ==
    \/ \E p \in DOMAIN gens : SamplerStart(p)
    \/ \E p \in DOMAIN gens : SamplerLoop(p)
    \/ \E p \in DOMAIN gens : SamplerExit(p)
    \/ \E p \in DOMAIN gens : SamplerResume(p)

Spec == Init /\ [][Next]_vars

\* ------------- one sampler() pass, the documented scenarios included
\* The lengths and budgets of the scenarios the design documents work through:
\* lengths [5, 3, 9] under budget 20, three examples of length 10 under budget
\* 15, one example of length 50 under budget 10.
ScenarioLengths == {3, 5, 9, 10, 50}
ScenarioBudgets == {10, 15, 20}

InitScenarios ==
    /\ \E n \in 1..3 : linearized \in [1..n -> ScenarioLengths]
    /\ tokenized = [i \in 1..DatasetLen |-> 1]
    /\ \E b \in ScenarioBudgets, sh \in BOOLEAN, so \in BOOLEAN :
           LoaderInit(b, "cpu", sh, so)
    /\ gens = <<NewGen>>
    /\ TensorIdle
    /\ it = NoIter
    /\ ShardIdle
    /\ StartIdle

SpecScenarios == (Init \/ InitScenarios) /\ [][Next]_vars

\* ------------- two sampler() passes over one loader, interleaved (SpecPair)
PairMaxN == 2
PairMaxLen == 2
PairMaxBudget == 3

\* Two generator objects made from the same loader: each call of sampler()
\* gets its own ids, counters and batch_ids (locals of the call, lines 171-187).
InitPair ==
    /\ \E n \in 0..PairMaxN :
           /\ linearized \in [1..n -> 1..PairMaxLen]
           /\ tokenized \in [1..n -> 1..PairMaxLen]
    /\ \E b \in 0..PairMaxBudget, so \in BOOLEAN : LoaderInit(b, "cpu", FALSE, so)
    /\ ~sort => tokenized = [i \in 1..DatasetLen |-> 1]
    /\ gens = <<NewGen, NewGen>>
    /\ TensorIdle
    /\ it = NoIter
    /\ ShardIdle
    /\ StartIdle

SpecPair == InitPair /\ [][Next]_vars

\* ------------------------------- the batching iterator in use (SpecIter)
\* The datasets explored here are those whose two lengths agree; the budgets
\* are the positive ones up to IterMaxBudget.
IterBudgets == 1..IterMaxBudget

InitIter ==
    /\ DatasetInit(IterMaxN)
    /\ tokenized = linearized
    /\ \E b \in IterBudgets, d \in Devices, sh \in BOOLEAN, so \in BOOLEAN :
           LoaderInit(b, d, sh, so)
    /\ gens = <<>>
    /\ TensorIdle
    /\ it = NoIter
    /\ ShardIdle
    /\ StartIdle

NextIter ==
    \/ IterCall
    \/ IterNext
    \/ IterStop
    \/ \E d \in Devices : SetDevice(d)
    \/ \E b \in IterBudgets : SetBatchSize(b)

SpecIter == InitIter /\ [][NextIter]_vars

\* ------------------------------------------ to_tensor alone (SpecTensor)
\* Sequences of token ids of length 0..n.
SeqsUpTo(n) == UNION {[1..k -> TokenIds] : k \in 0..n}

InitTensor ==
    /\ linearized = <<>>
    /\ tokenized = <<>>
    /\ LoaderInit(1, "cpu", FALSE, FALSE)
    /\ gens = <<>>
    /\ \E n \in 1..MaxRows : samples \in [1..n -> SeqsUpTo(MaxSeqLen)]
    /\ padding_value \in TokenIds
    /\ result = NoResult
    /\ it = NoIter
    /\ ShardIdle
    /\ StartIdle

NextTensor ==
    \/ \E dev \in Devices : ToTensorCall(dev, TRUE)
    \/ \E dev \in Devices : ToTensorCall(dev, FALSE)

SpecTensor == InitTensor /\ [][NextTensor]_vars

\* ----------------------- a rank's dataset and its batching (SpecShard)
\* The ratio of tokenized to linearized length above which a training
\* instance is discarded as bad.
BadRatio == 5

\* Tokenized lengths of the corpus: an ordinary one, and one that makes an
\* example of linearized length 1 a bad instance.
ShardToks == {1, BadRatio + 1}

\* Variant: graphs[::world_size], every rank starting at position 0.
SliceIgnoringStart(s, start, step) ==
    [i \in 1..((Len(s) + step - 1) \div step) |-> s[(i - 1) * step + 1]]
\* s[start::step] for 0 <= start and 1 <= step
Slice(s, start, step) ==
    LET count == IF Len(s) > start THEN (Len(s) - start + step - 1) \div step ELSE 0
    IN [i \in 1..count |-> s[start + (i - 1) * step + 1]]

\* The two `continue` branches of the loading loop (lines 70-77) for the
\* graph at corpus position p; both apply to training datasets only.
Discarded(p) ==
    /\ ~evaluation
    /\ \/ remove_longer_than # 0 /\ corpus[p + 1].lin > remove_longer_than
       \/ corpus[p + 1].tok > BadRatio * corpus[p + 1].lin

NotDiscarded(p) == ~Discarded(p)

\* AMRDataset.__init__: read the corpus, keep every world_size-th graph from
\* position rank on (line 52), then load the graphs that are not discarded.
DatasetNew ==
    /\ ~built
    /\ LET claimed == Slice(Range(Len(corpus)), rank, world_size)
           loaded == SelectSeq(claimed, NotDiscarded)
       IN /\ graphs' = claimed
          /\ kept' = loaded
          /\ linearized' = [i \in 1..Len(loaded) |-> corpus[loaded[i] + 1].lin]
          /\ tokenized' = [i \in 1..Len(loaded) |-> corpus[loaded[i] + 1].tok]
    /\ built' = TRUE
    /\ UNCHANGED <<batch_size, device, shuffle, sort, gens, tensorVars, it,
                   corpus, rank, world_size, evaluation, remove_longer_than,
                   startVars>>

\* loader.sampler() on the loader made over the constructed dataset: the call
\* makes the generator object and runs none of its body.
SamplerCall ==
    /\ built
    /\ gens = <<>>
    /\ gens' = <<NewGen>>
    /\ UNCHANGED <<loaderVars, tensorVars, it, shardVars, startVars>>

\* train.py line 194: rank 0 puts the pieces of all ranks back in corpus
\* order, pieces[i] = pred_pieces[i % world_size][i // world_size].
RECURSIVE TotalLen(_, _)
TotalLen(pred_pieces, k) ==
    IF k = 0 THEN 0 ELSE Len(pred_pieces[k - 1]) + TotalLen(pred_pieces, k - 1)

Reassemble(pred_pieces, k) ==
    [i \in 1..TotalLen(pred_pieces, k) |->
        pred_pieces[(i - 1) % k][((i - 1) \div k) + 1]]

InitShard ==
    /\ \E n \in 0..ShardMaxN : corpus \in [1..n -> [lin : 1..ShardMaxLen, tok : ShardToks]]
    /\ world_size \in 1..MaxWorldSize
    /\ rank \in 0..(world_size - 1)
    /\ evaluation \in BOOLEAN
    /\ remove_longer_than \in 0..(ShardMaxLen - 1)
    /\ graphs = <<>>
    /\ kept = <<>>
    /\ built = FALSE
    /\ linearized = <<>>
    /\ tokenized = <<>>
    /\ \E b \in {ShardMaxLen, 2 * ShardMaxLen} : LoaderInit(b, "cpu", FALSE, TRUE)
    /\ gens = <<>>
    /\ TensorIdle
    /\ it = NoIter
    /\ StartIdle

NextShard ==
    \/ DatasetNew
    \/ SamplerCall
    \/ \E p \in DOMAIN gens : SamplerStart(p)
    \/ \E p \in DOMAIN gens : SamplerLoop(p)
    \/ \E p \in DOMAIN gens : SamplerExit(p)
    \/ \E p \in DOMAIN gens : SamplerResume(p)

SpecShard == InitShard /\ [][NextShard]_vars

\* ------------------------------------------------- reading a pass's output
\* Longest linearized length among the ids of s (0 for no ids).
MaxLinOf(s) ==
    IF s = <<>> THEN 0
    ELSE CHOOSE m \in {Lin(s[i]) : i \in 1..Len(s)} :
             \A i \in 1..Len(s) : Lin(s[i]) <= m

\* The ids in the order the pass has handed them out so far.
Drained(g) == Flatten(g.out)

\* --------------------------------------------------------------- claims
\* C1: with a budget >= 1 and a non-empty dataset, the groups of one complete
\* sampler() pass are non-empty and partition 0..n-1: no id is yielded twice,
\* and once the pass is done every id has been yielded exactly once.
C1_GroupsPartitionIndexRange ==
    \A p \in DOMAIN gens :
        (batch_size >= 1 /\ DatasetLen >= 1) =>
            /\ \A k \in 1..Len(gens[p].out) : gens[p].out[k] # <<>>
            /\ NoDuplicates(Drained(gens[p]))
            /\ Elems(Drained(gens[p])) \subseteq 0..(DatasetLen - 1)
            /\ gens[p].pc = "done" =>
                   /\ Elems(Drained(gens[p])) = 0..(DatasetLen - 1)
                   /\ Len(Drained(gens[p])) = DatasetLen

\* C1 witness: a finished pass over three examples that yielded a group of
\* two ids and a further group.
C1_Witness ==
    \E p \in DOMAIN gens :
        /\ gens[p].pc = "done"
        /\ batch_size >= 1
        /\ DatasetLen = 3
        /\ Len(gens[p].out) = 2
        /\ \E k \in 1..Len(gens[p].out) : Len(gens[p].out[k]) = 2

\* C2: every yielded group of more than one id costs at most the budget:
\* (longest linearized length in the group) x (ids in the group) <= batch_size.
C2_NonSingletonWithinBudget ==
    \A p \in DOMAIN gens :
        \A k \in 1..Len(gens[p].out) :
            Len(gens[p].out[k]) > 1 =>
                MaxLinOf(gens[p].out[k]) * Len(gens[p].out[k]) <= batch_size

\* C2 witness: a yielded group of two ids of different lengths whose padded
\* cost fills the budget exactly.
C2_Witness ==
    \E p \in DOMAIN gens :
        \E k \in 1..Len(gens[p].out) :
            /\ Len(gens[p].out[k]) = 2
            /\ Lin(gens[p].out[k][1]) # Lin(gens[p].out[k][2])
            /\ MaxLinOf(gens[p].out[k]) * 2 = batch_size

\* C3: an example longer than the budget is yielded alone: any yielded group
\* holding such an id holds nothing else, a finished pass has yielded every
\* such id as a singleton, and a budget below the shortest example makes every
\* group a singleton.
C3_OversizedYieldedAlone ==
    \A p \in DOMAIN gens :
        /\ \A k \in 1..Len(gens[p].out) :
               \A i \in 1..Len(gens[p].out[k]) :
                   Lin(gens[p].out[k][i]) > batch_size =>
                       gens[p].out[k] = <<gens[p].out[k][i]>>
        /\ gens[p].pc = "done" =>
               \A x \in 0..(DatasetLen - 1) :
                   Lin(x) > batch_size =>
                       \E k \in 1..Len(gens[p].out) : gens[p].out[k] = <<x>>
        /\ (\A x \in 0..(DatasetLen - 1) : batch_size < Lin(x)) =>
               \A k \in 1..Len(gens[p].out) : Len(gens[p].out[k]) = 1

\* C3 witness: a finished pass in which an oversized example was consumed
\* between two examples that would fit the budget together, and came out alone.
C3_Witness ==
    \E p \in DOMAIN gens :
        /\ gens[p].pc = "done"
        /\ Len(gens[p].out) = 3
        /\ Lin(gens[p].out[2][1]) > batch_size
        /\ 2 * Max(Lin(gens[p].out[1][1]), Lin(gens[p].out[3][1])) <= batch_size

\* C4: a budget of zero or less is rejected at construction, so no pass is
\* ever started and no group ever yielded under such a budget.
C4_NonPositiveBudgetRejected ==
    \A p \in DOMAIN gens :
        (gens[p].pc # "start" \/ gens[p].out # <<>>) => batch_size >= 1

NonDecreasingLin(s) == \A i, j \in 1..Len(s) : i < j => Lin(s[i]) <= Lin(s[j])
NonDecreasingTok(s) == \A i, j \in 1..Len(s) : i < j => Tok(s[i]) <= Tok(s[j])
DescendingLin(s) == \A i, j \in 1..Len(s) : i < j => Lin(s[i]) >= Lin(s[j])
DescendingTok(s) == \A i, j \in 1..Len(s) : i < j => Tok(s[i]) >= Tok(s[j])

\* The ids a pass has taken off the list so far, in the order it took them:
\* the yielded groups, then the running group, then an id popped but held back
\* across the yield of line 202.
Consumed(g) ==
    Drained(g) \o g.batch_ids \o (IF g.pc = "yield202" THEN <<g.idx>> ELSE <<>>)

\* C9 as stated: with sort enabled, shuffled or not, the ids come out in
\* non-decreasing linearized length.
C9_SortedDrainsByLinearized ==
    \A p \in DOMAIN gens : sort => NonDecreasingLin(Drained(gens[p]))

\* C9 amended: with sort enabled the ids come out in non-decreasing order of
\* the length the sort read: the linearized length when shuffle is enabled,
\* the tokenized length when shuffle is disabled.
C9_SortedDrainsBySortKey ==
    \A p \in DOMAIN gens :
        /\ (sort /\ shuffle) =>
               /\ NonDecreasingLin(Consumed(gens[p]))
               /\ DescendingLin(gens[p].ids)
        /\ (sort /\ ~shuffle) =>
               /\ NonDecreasingTok(Consumed(gens[p]))
               /\ DescendingTok(gens[p].ids)

\* C9 witness: a finished sorted pass without shuffle over three examples whose
\* tokenized lengths order them against their linearized lengths.
C9_Witness ==
    \E p \in DOMAIN gens :
        /\ sort /\ ~shuffle
        /\ gens[p].pc = "done"
        /\ DatasetLen = 3
        /\ ~NonDecreasingLin(Drained(gens[p]))
        /\ \E i, j \in 1..DatasetLen : Tok(Drained(gens[p])[i]) < Tok(Drained(gens[p])[j])

\* C10: with sort enabled the id list is ordered by descending linearized
\* length if shuffle is enabled and by descending tokenized length if it is
\* disabled; the budget test reads the linearized length in both cases: the
\* popped size and the running longest are linearized lengths, and a group is
\* closed at line 202 exactly on a candidate cost computed from them.
C10_SortKeyFollowsShuffleFlag ==
    \A p \in DOMAIN gens :
        /\ (sort /\ shuffle) => DescendingLin(gens[p].ids)
        /\ (sort /\ ~shuffle) => DescendingTok(gens[p].ids)
        /\ gens[p].idx >= 0 => gens[p].size = Lin(gens[p].idx)
        /\ gens[p].batch_longest = MaxLinOf(gens[p].batch_ids)
        /\ gens[p].pc = "yield202" =>
               LET G == gens[p].out[Len(gens[p].out)] IN
               Max(Lin(gens[p].idx), MaxLinOf(G)) * (Len(G) + 1) > batch_size

\* C10 witness: a sorted pass without shuffle, just started on three examples,
\* whose list is ordered by tokenized length against the linearized lengths.
C10_Witness ==
    \E p \in DOMAIN gens :
        /\ sort /\ ~shuffle
        /\ gens[p].pc = "loop"
        /\ Len(gens[p].ids) = 3
        /\ \E i, j \in 1..3 :
               /\ i < j
               /\ Tok(gens[p].ids[i]) > Tok(gens[p].ids[j])
               /\ Lin(gens[p].ids[i]) < Lin(gens[p].ids[j])

\* ------------------------------------------------------ to_tensor claims
\* Number of 1s in a mask row: the length a reader recovers from the mask.
RECURSIVE Ones(_)
Ones(row) == IF row = <<>> THEN 0 ELSE Head(row) + Ones(Tail(row))

HasPad(seq) == \E j \in 1..Len(seq) : seq[j] = padding_value

Rows == 1..Len(samples)
Cols == 1..LongestOf(samples)

\* C5 as stated: for every pad value, mask[i][j] = 1 exactly at the positions
\* within sequence i's own length, also when the sequence holds the pad value.
C5_MaskMarksOriginalLength ==
    (result.returned /\ result.with_mask) =>
        \A i \in Rows : \A j \in Cols :
            (result.attention_mask[i][j] = 1) <=> (j <= Len(samples[i]))

\* C5 amended: mask[i][j] = 1 exactly at the positions within sequence i's own
\* length whose element differs from the pad value; so the mask marks the
\* original length of every sequence that does not hold the pad value.
C5_MaskMarksNonPadWithinLength ==
    (result.returned /\ result.with_mask) =>
        /\ \A i \in Rows : \A j \in Cols :
               /\ result.attention_mask[i][j] \in {0, 1}
               /\ (result.attention_mask[i][j] = 1) <=>
                      (j <= Len(samples[i]) /\ samples[i][j] # padding_value)
        /\ \A i \in Rows : ~HasPad(samples[i]) =>
               \A j \in Cols :
                   (result.attention_mask[i][j] = 1) <=> (j <= Len(samples[i]))

\* C5 witness: a mask returned for two sequences of different lengths, neither
\* holding the pad value, so one row carries padding.
C5_Witness ==
    /\ result.returned /\ result.with_mask
    /\ Len(samples) = 2
    /\ Len(samples[1]) = 2 /\ Len(samples[2]) = 1
    /\ \A i \in Rows : ~HasPad(samples[i])
    /\ result.attention_mask = <<(<<1, 1>>), (<<1, 0>>)>>

\* C6 as stated: N rows by L_max columns in input order, and cutting row i to
\* the number of 1s in mask row i gives back sequence i, all later positions
\* holding the pad value.
C6_RoundTripByMask ==
    (result.returned /\ result.with_mask) =>
        /\ Len(result.input_ids) = Len(samples)
        /\ \A i \in Rows :
               /\ Len(result.input_ids[i]) = LongestOf(samples)
               /\ SubSeq(result.input_ids[i], 1, Ones(result.attention_mask[i]))
                      = samples[i]
               /\ \A j \in Cols :
                      j > Ones(result.attention_mask[i]) =>
                          result.input_ids[i][j] = padding_value

\* C6 amended: N rows by L_max columns in input order; cutting row i to
\* sequence i's own length gives back sequence i, all later positions holding
\* the pad value; the number of 1s in mask row i is that length, and the cut by
\* the mask gives back sequence i, whenever sequence i does not hold the pad
\* value.
C6_RoundTripByLength ==
    result.returned =>
        /\ Len(result.input_ids) = Len(samples)
        /\ \A i \in Rows :
               /\ Len(result.input_ids[i]) = LongestOf(samples)
               /\ SubSeq(result.input_ids[i], 1, Len(samples[i])) = samples[i]
               /\ \A j \in Cols :
                      j > Len(samples[i]) => result.input_ids[i][j] = padding_value
               /\ (result.with_mask /\ ~HasPad(samples[i])) =>
                      /\ Ones(result.attention_mask[i]) = Len(samples[i])
                      /\ SubSeq(result.input_ids[i], 1, Ones(result.attention_mask[i]))
                             = samples[i]

\* C6 witness: a padded tensor returned with its mask for a shorter sequence
\* followed by a longer one, neither holding the pad value.
C6_Witness ==
    /\ result.returned /\ result.with_mask
    /\ Len(samples) = 2
    /\ Len(samples[1]) = 1 /\ Len(samples[2]) = 2
    /\ \A i \in Rows : ~HasPad(samples[i])
    /\ result.input_ids[1] = <<samples[1][1], padding_value>>
    /\ result.input_ids[2] = samples[2]

\* ------------------------------------------------------- iterator claims
\* The groups of the iterator's pass, handed out or still to come.
PassGroups == [k \in 1..Len(it.batches) |-> it.batches[k].ids] \o it.pending

\* The passes a sampler can make over the dataset under budget B.
SamplerRuns(B) ==
    {Drain(StartGen(NewGen, perm), B) :
        perm \in (IF shuffle THEN Perms(DatasetLen) ELSE {Range(DatasetLen)})}

\* C7: every batch an iterator produces sits on the device the loader named
\* when that iterator's pass started, whatever the device attribute is set to
\* while the pass is in flight.
C7_BatchesOnStartDevice ==
    \A k \in 1..Len(it.batches) : it.batches[k].device = it.start_device

\* C8: the groups of a pass, handed out or still pending, are at every moment
\* the groups of a sampler run under the budget in force when __iter__ was
\* called (in sampler order without shuffle, as a reordering of them with it),
\* whatever batch_size is set to while the pass is in flight.
C8_GroupsFixedAtPassStart ==
    (it.live \/ it.batches # <<>>) =>
        \E run \in SamplerRuns(it.start_batch_size) :
            /\ Len(PassGroups) = Len(run)
            /\ Elems(PassGroups) = Elems(run)
            /\ ~shuffle => PassGroups = run

\* C8 witness: a pass in flight with one batch out and one to come, the budget
\* changed since its start to one under which the sampler groups differently.
C8_Witness ==
    /\ it.live
    /\ Len(it.batches) = 1
    /\ Len(it.pending) = 1
    /\ batch_size # it.start_batch_size
    /\ \A run \in SamplerRuns(batch_size) : Len(run) # 2

\* ------------------------- start-up of the training script (SpecStart)
\* Lines 3-12: the try/except around the import of autocast.  Whether the
\* installed PyTorch has torch.cuda.amp.autocast is the environment's choice.
ImportAutocast(available) ==
    /\ startup = "import"
    /\ autocast_available' = available
    /\ startup' = "imported"
    /\ UNCHANGED <<loaderVars, gens, tensorVars, it, shardVars,
                   args, config_readable, procs>>

\* Lines 14-29: the remaining imports, none of them guarded.  A PyTorch that
\* has autocast has GradScaler as well; one without autocast may lack
\* torch.cuda.amp.grad_scaler, and the script then ends in ImportError.
ImportRest ==
    /\ startup = "imported"
    /\ startup' \in (IF autocast_available THEN {"main"} ELSE {"main", "import_error"})
    /\ UNCHANGED <<loaderVars, gens, tensorVars, it, shardVars,
                   autocast_available, args, config_readable, procs>>

\* Lines 244-257: the command line is parsed; --fp16 is a flag, --checkpoint
\* is given or left at None, --nproc_per_node is an integer.
ParseArgs(fp16, checkpoint, nproc) ==
    /\ startup = "main"
    /\ args' = [fp16 |-> fp16, checkpoint |-> checkpoint, nproc_per_node |-> nproc]
    /\ startup' = "parsed"
    /\ UNCHANGED <<loaderVars, gens, tensorVars, it, shardVars,
                   autocast_available, config_readable, procs>>

\* Lines 259-260: if args.fp16 and autocast_available: raise ValueError(...)
Fp16Guard ==
    /\ startup = "parsed"
    /\ startup' = IF args.fp16 /\ autocast_available THEN "value_error" ELSE "guard_passed"
    /\ UNCHANGED <<loaderVars, gens, tensorVars, it, shardVars,
                   autocast_available, args, config_readable, procs>>

\* Lines 262-263: the config file is opened and read.
LoadConfig ==
    /\ startup = "guard_passed"
    /\ startup' = IF config_readable THEN "config_loaded" ELSE "config_error"
    /\ UNCHANGED <<loaderVars, gens, tensorVars, it, shardVars,
                   autocast_available, args, config_readable, procs>>

\* Lines 265-266: idist.Parallel starts nproc_per_node processes on do_train.
Launch ==
    /\ startup = "config_loaded"
    /\ startup' = "training"
    /\ procs' = [i \in 1..args.nproc_per_node |->
                    [pc |-> "spawned", rank |-> -1, world_size |-> 0, fp16 |-> FALSE]]
    /\ UNCHANGED <<loaderVars, gens, tensorVars, it, shardVars,
                   autocast_available, args, config_readable>>

\* do_train lines 33-37 in the i-th process: it reads its rank, the world
\* size and args.fp16.
DoTrainStart(i) ==
    /\ startup = "training"
    /\ procs[i].pc = "spawned"
    /\ procs' = [procs EXCEPT ![i] = [pc |-> "running", rank |-> i - 1,
                                      world_size |-> Len(procs), fp16 |-> args.fp16]]
    /\ UNCHANGED <<loaderVars, gens, tensorVars, it, shardVars,
                   autocast_available, args, config_readable, startup>>

InitStart ==
    /\ linearized = <<>>
    /\ tokenized = <<>>
    /\ LoaderInit(1, "cpu", FALSE, FALSE)
    /\ gens = <<>>
    /\ TensorIdle
    /\ it = NoIter
    /\ ShardIdle
    /\ autocast_available = FALSE
    /\ args = DefaultArgs
    /\ config_readable \in BOOLEAN
    /\ startup = "import"
    /\ procs = <<>>

NextStart ==
    \/ \E available \in BOOLEAN : ImportAutocast(available)
    \/ ImportRest
    \/ \E fp16 \in BOOLEAN, checkpoint \in BOOLEAN, nproc \in 1..MaxNproc :
           ParseArgs(fp16, checkpoint, nproc)
    \/ Fp16Guard
    \/ LoadConfig
    \/ Launch
    \/ \E i \in DOMAIN procs : DoTrainStart(i)

SpecStart == InitStart /\ [][NextStart]_vars

\* ------------------------------------------------- further sampler claims
\* n-1, n-2, ..., 0
ReversedRange(n) == [i \in 1..n |-> n - i]

IsPrefix(s, t) == Len(s) <= Len(t) /\ s = SubSeq(t, 1, Len(s))

\* C11: with sort and shuffle both disabled the ids are considered in the order
\* n-1, ..., 0: what a pass has consumed is at every moment a prefix of the
\* reversed index range, a finished pass has yielded exactly the reversed
\* range, and linearized lengths [5, 3, 9] under budget 20 yield the groups
\* [[2, 1], [0]] in that order.
C11_UnsortedPopsFromTheEnd ==
    \A p \in DOMAIN gens :
        (~sort /\ ~shuffle) =>
            /\ IsPrefix(Consumed(gens[p]), ReversedRange(DatasetLen))
            /\ gens[p].pc = "done" => Drained(gens[p]) = ReversedRange(DatasetLen)
            /\ (gens[p].pc = "done" /\ linearized = <<5, 3, 9>> /\ batch_size = 20) =>
                   gens[p].out = <<(<<2, 1>>), (<<0>>)>>

\* C11 witness: the finished pass over lengths [5, 3, 9] under budget 20,
\* unsorted and unshuffled, with two groups out.
C11_Witness ==
    \E p \in DOMAIN gens :
        /\ ~sort /\ ~shuffle
        /\ gens[p].pc = "done"
        /\ linearized = <<5, 3, 9>>
        /\ batch_size = 20
        /\ Len(gens[p].out) = 2

\* Every example has the linearized length s.
AllOfLength(s) == \A x \in 0..(DatasetLen - 1) : Lin(x) = s

\* C12 as stated: when all examples have the linearized length s, every group
\* of a finished pass but the last holds exactly floor(batch_size / s) ids.
C12_UniformGroupsOfFloor ==
    \A p \in DOMAIN gens :
        \A s \in 1..50 :
            (DatasetLen >= 1 /\ AllOfLength(s) /\ gens[p].pc = "done") =>
                \A k \in 1..(Len(gens[p].out) - 1) :
                    Len(gens[p].out[k]) = batch_size \div s

\* C12 amended: when all examples have the linearized length s, every group of
\* a finished pass but the last holds exactly max(1, floor(batch_size / s))
\* ids, and the last holds between one and that many.
C12_UniformGroupsOfFloorOrOne ==
    \A p \in DOMAIN gens :
        \A s \in 1..50 :
            (DatasetLen >= 1 /\ AllOfLength(s) /\ gens[p].pc = "done") =>
                /\ \A k \in 1..(Len(gens[p].out) - 1) :
                       Len(gens[p].out[k]) = Max(1, batch_size \div s)
                /\ Len(gens[p].out[Len(gens[p].out)]) \in 1..Max(1, batch_size \div s)

\* C12 witness: a finished pass over three examples of one length that came
\* out as a group of two and a last group of one.
C12_Witness ==
    \E p \in DOMAIN gens :
        /\ gens[p].pc = "done"
        /\ DatasetLen = 3
        /\ AllOfLength(Lin(0))
        /\ batch_size \div Lin(0) = 2
        /\ Len(gens[p].out) = 2
        /\ Len(gens[p].out[1]) = 2
        /\ Len(gens[p].out[2]) = 1

\* C16: over an empty dataset a sampler() pass goes from its start to its end
\* without passing a yield and hands out no group, and the list __iter__
\* builds from the sampler is empty, so the first next() ends the iteration:
\* zero groups and zero batches under every budget and sort/shuffle setting.
C16_EmptyDatasetYieldsNothing ==
    DatasetLen = 0 =>
        /\ \A p \in DOMAIN gens :
               /\ gens[p].pc \in {"start", "loop", "done"}
               /\ gens[p].out = <<>>
               /\ gens[p].batch_ids = <<>>
        /\ SamplerRuns(batch_size) = {<<>>}
        /\ \A gp \in GroupOrders(<<>>) :
               /\ IterNew(<<>>, gp).pending = <<>>
               /\ IterNew(<<>>, gp).batches = <<>>

\* C16 witness: a pass over the empty dataset that has ended.
C16_Witness ==
    /\ DatasetLen = 0
    /\ \E p \in DOMAIN gens : gens[p].pc = "done" /\ gens[p].out = <<>>

\* C17: at every loop boundary batch_nexamps is the number of ids in batch_ids,
\* batch_longest is the largest linearized length among them (0 for none) and
\* batch_ntokens is batch_longest * batch_nexamps; at every yield the three
\* counters are 0 and batch_ids is empty.
C17_RunningStateConsistent ==
    \A p \in DOMAIN gens :
        /\ gens[p].pc = "loop" =>
               /\ gens[p].batch_nexamps = Len(gens[p].batch_ids)
               /\ gens[p].batch_longest = MaxLinOf(gens[p].batch_ids)
               /\ gens[p].batch_ntokens = gens[p].batch_longest * gens[p].batch_nexamps
        /\ gens[p].pc \in {"yield202", "yield209", "yield212"} =>
               /\ gens[p].batch_nexamps = 0
               /\ gens[p].batch_longest = 0
               /\ gens[p].batch_ntokens = 0
               /\ gens[p].batch_ids = <<>>

\* C17 witness: a loop boundary with two ids of different lengths in the
\* running group, after an earlier group was yielded.
C17_Witness ==
    \E p \in DOMAIN gens :
        /\ gens[p].pc = "loop"
        /\ gens[p].out # <<>>
        /\ Len(gens[p].batch_ids) = 2
        /\ Lin(gens[p].batch_ids[1]) # Lin(gens[p].batch_ids[2])

\* Adding the id f to the group G would have exceeded the budget.
WouldExceed(G, f) == Max(MaxLinOf(G), Lin(f)) * (Len(G) + 1) > batch_size

\* C18: for any two consecutive groups G, G' of a pass and the first id f of
\* G', max(longest linearized length in G, linearized length of f) *
\* (|G| + 1) > batch_size; the same holds of the last yielded group and the
\* first id of the group being built.
C18_GroupsGreedilyMaximal ==
    \A p \in DOMAIN gens :
        LET g == gens[p]
            next == g.batch_ids \o (IF g.pc = "yield202" THEN <<g.idx>> ELSE <<>>)
        IN /\ \A k \in 1..(Len(g.out) - 1) : WouldExceed(g.out[k], g.out[k + 1][1])
           /\ (g.out # <<>> /\ next # <<>>) => WouldExceed(g.out[Len(g.out)], next[1])

\* C18 witness: a finished pass whose first group holds two ids and was closed
\* by a third id that did not fit; none of the three is oversized.
C18_Witness ==
    \E p \in DOMAIN gens :
        /\ gens[p].pc = "done"
        /\ Len(gens[p].out) = 2
        /\ Len(gens[p].out[1]) = 2
        /\ \A x \in 0..(DatasetLen - 1) : Lin(x) <= batch_size

\* A bound on the steps a pass has left: three per id still to pop, plus the
\* distance of the position from the end.
StepsLeft(g) ==
    CASE g.pc = "start" -> 3 * DatasetLen + 3
      [] g.pc = "yield202" -> 3 * Len(g.ids) + 4
      [] g.pc = "yield209" -> 3 * Len(g.ids) + 3
      [] g.pc = "loop" -> 3 * Len(g.ids) + 2
      [] g.pc = "yield212" -> 3 * Len(g.ids) + 1
      [] OTHER -> 3 * Len(g.ids)

\* C19: every pass ends: from every position after the start and before the
\* end the pass has a next step, and that step lowers StepsLeft, which is
\* below its value at the start; the ids consumed and the ids still to pop
\* are together the n ids once each, at most n groups are yielded, and an
\* ended pass has no id left to pop and no group left unflushed.
C19_PassTerminates ==
    \A p \in DOMAIN gens :
        /\ gens[p].pc = "start" => StepsLeft(gens[p]) = 3 * DatasetLen + 3
        /\ gens[p].pc \notin {"start", "done"} =>
               /\ Advance(gens[p], batch_size) # gens[p]
               /\ StepsLeft(Advance(gens[p], batch_size)) < StepsLeft(gens[p])
               /\ StepsLeft(gens[p]) < 3 * DatasetLen + 3
        /\ gens[p].pc # "start" =>
               /\ NoDuplicates(Consumed(gens[p]) \o gens[p].ids)
               /\ Elems(Consumed(gens[p]) \o gens[p].ids) = 0..(DatasetLen - 1)
        /\ Len(gens[p].out) <= DatasetLen
        /\ gens[p].pc = "done" =>
               /\ StepsLeft(gens[p]) = 0
               /\ gens[p].batch_ids = <<>>
               /\ Len(Drained(gens[p])) = DatasetLen

\* C19 witness: an ended pass over three examples that yielded three groups.
C19_Witness ==
    \E p \in DOMAIN gens :
        /\ gens[p].pc = "done"
        /\ DatasetLen = 3
        /\ Len(gens[p].out) = 3

\* ------------------------------------------------ further iterator claims
\* The id lists of the batches handed out so far, in order.
BatchIds == [k \in 1..Len(it.batches) |-> it.batches[k].ids]

\* The list a holds the groups of the list b, each once, in some order.
IsRearrangement(a, b) ==
    /\ Len(a) = Len(b)
    /\ \E f \in [1..Len(a) -> 1..Len(a)] :
           /\ \A i, j \in 1..Len(a) : i # j => f[i] # f[j]
           /\ \A i \in 1..Len(a) : a[i] = b[f[i]]

\* C13: with the epoch shuffle on, the batches of a pass of __iter__ followed
\* by the groups still to come are a rearrangement of the groups one sampler()
\* run yields under the budget the pass started with: each batch carries the
\* ids of exactly one group, in the group's own order, and a completed pass
\* has handed out every group once.
C13_BatchesPermuteSamplerGroups ==
    (shuffle /\ (it.live \/ it.batches # <<>>)) =>
        /\ PassGroups = BatchIds \o it.pending
        /\ \E groups \in SamplerRuns(it.start_batch_size) :
               IsRearrangement(PassGroups, groups)
        /\ ~it.live => it.pending = <<>>

\* C13 witness: a completed shuffled pass of two batches whose order is not
\* one the sampler itself produces.
C13_Witness ==
    /\ shuffle
    /\ ~it.live
    /\ Len(it.batches) = 2
    /\ it.start_batch_size = batch_size
    /\ BatchIds \notin SamplerRuns(batch_size)

\* ------------------------------------------------ two interleaved passes
\* The groups a pass yields when it runs alone, shuffle being off.
AloneRun == Drain(StartGen(NewGen, Range(DatasetLen)), batch_size)

\* C14: with shuffle disabled, two sampler() passes over the same loader whose
\* steps interleave in any way each yield the sequence of groups a pass yields
\* when run alone: what each has yielded so far is a prefix of that sequence,
\* an ended pass has yielded all of it, and so both yield the same sequence.
C14_InterleavedPassesAgree ==
    ~shuffle =>
        \A p \in DOMAIN gens :
            /\ IsPrefix(gens[p].out, AloneRun)
            /\ gens[p].pc = "done" => gens[p].out = AloneRun

\* C14 witness: both passes under way at once, suspended at different yields,
\* the second one group ahead of the first.
C14_Witness ==
    /\ ~shuffle
    /\ Len(gens) = 2
    /\ gens[1].pc = "yield202"
    /\ gens[2].pc = "yield209"
    /\ Len(gens[1].out) = 1
    /\ Len(gens[2].out) = 2

\* ------------------------------------------------------- sharding claims
\* The corpus positions r, r + k, r + 2k, ... below n, in order.
EveryKth(r, k, n) == SelectSeq(Range(n), LAMBDA p : p % k = r)

\* What the constructor of rank r claims, and what it keeps, of the corpus.
ShardOf(r) == Slice(Range(Len(corpus)), r, world_size)
KeptOf(r) == SelectSeq(ShardOf(r), NotDiscarded)

Ranks == 0..(world_size - 1)

\* C15 as stated: the process of rank r keeps exactly the examples at
\* positions r, r + k, r + 2k, ...; the shards of distinct ranks are disjoint
\* and together the whole corpus; no batching precedes the sharding.
C15_RankKeepsEveryKth ==
    /\ built =>
           /\ kept = EveryKth(rank, world_size, Len(corpus))
           /\ \A r \in Ranks : KeptOf(r) = EveryKth(r, world_size, Len(corpus))
           /\ \A r1, r2 \in Ranks :
                  r1 # r2 => Elems(KeptOf(r1)) \cap Elems(KeptOf(r2)) = {}
           /\ UNION {Elems(KeptOf(r)) : r \in Ranks} = 0..(Len(corpus) - 1)
    /\ gens # <<>> => built

\* C15 amended: the constructor of rank r claims exactly the positions r,
\* r + k, r + 2k, ... (line 52) and keeps of them, in order, those the
\* loading loop does not discard: all of them in an evaluation dataset, and
\* in a training dataset those within remove_longer_than and the length
\* ratio.  The claimed shards of distinct ranks are disjoint and together
\* the whole corpus, and line 194 of train.py puts them back in corpus
\* order; the kept shards are disjoint.  The sampler's generator exists only
\* after the constructor has returned, and it handles only the local
\* indices of what the rank kept.
C15_RankClaimsEveryKth ==
    /\ built =>
           /\ graphs = EveryKth(rank, world_size, Len(corpus))
           /\ kept = SelectSeq(graphs, NotDiscarded)
           /\ evaluation => kept = graphs
           /\ DatasetLen = Len(kept)
    /\ \A r \in Ranks :
           /\ ShardOf(r) = EveryKth(r, world_size, Len(corpus))
           /\ Elems(KeptOf(r)) \subseteq Elems(ShardOf(r))
           /\ evaluation => KeptOf(r) = ShardOf(r)
    /\ \A r1, r2 \in Ranks : r1 # r2 => Elems(ShardOf(r1)) \cap Elems(ShardOf(r2)) = {}
    /\ UNION {Elems(ShardOf(r)) : r \in Ranks} = 0..(Len(corpus) - 1)
    /\ Reassemble([r \in Ranks |-> ShardOf(r)], world_size) = Range(Len(corpus))
    /\ gens # <<>> =>
           /\ built
           /\ \A p \in DOMAIN gens :
                  Elems(Consumed(gens[p]) \o gens[p].ids) \subseteq 0..(Len(kept) - 1)

\* C15 witness: rank 1 of 2 over a corpus of three graphs has claimed position
\* 1 only, kept it, and its sampler pass has handed it out.
C15_Witness ==
    /\ built
    /\ world_size = 2
    /\ rank = 1
    /\ Len(corpus) = 3
    /\ graphs = <<1>>
    /\ kept = <<1>>
    /\ \E p \in DOMAIN gens : gens[p].pc = "done" /\ gens[p].out = <<(<<0>>)>>

\* ------------------------------------------------------- start-up claims
\* The script has evaluated its fp16 guard.
PastGuard == startup \in {"value_error", "guard_passed", "config_loaded",
                          "config_error", "training"}

\* C20: the fp16 ValueError is raised exactly when --fp16 is requested and
\* autocast_available is False; when --fp16 is requested and autocast is
\* available the start-up goes on without raising.
C20_Fp16RejectedOnlyWithoutAutocast ==
    PastGuard =>
        /\ startup = "value_error" <=> (args.fp16 /\ ~autocast_available)
        /\ (args.fp16 /\ autocast_available) => startup # "value_error"

====
